---- MODULE Spec2Model ----
(***************************************************************************)
(* A model of the change-primary-domain tool (lib/domainchanger.go and its  *)
(* entry point main).  Strings are sequences of byte values, so that        *)
(* strings.Split / strings.Join and the ordering of a listing are computed  *)
(* as the Go code computes them.  The remote directory is a store that      *)
(* changes only by the calls of the tool: a successful update replaces the  *)
(* primary address of one record, a successful alias insert appends one     *)
(* alias to one record, and any call may fail or succeed.                   *)
(***************************************************************************)
EXTENDS Integers, Sequences, FiniteSets, TLC

\* ---------------------------------------------------------------- bounds
MaxUsers == 2
MaxGroups == 1
MaxAliases == 2
MaxRuns == 2
MaxUsersTwice == 1
MaxLen == 4

\* ------------------------------------------------------------- constants
\* The byte '@', the separator of strings.Split and strings.Join.
At == 64
\* MaxResults(50) of the user listing.
UsersMaxResults == 50

\* The command line: -old-domain o -new-domain n ("o" and "n" as bytes).
oldDomain == <<111>>
newDomain == <<110>>
\* A further domain of the account ("x").
otherDomain == <<120>>

\* ------------------------------------------------------------- strings
Min(a, b) == IF a < b THEN a ELSE b

\* s < t in byte order, the order of a listing ordered by email.
LexLess(s, t) ==
    \E i \in 1..(Min(Len(s), Len(t)) + 1) :
        /\ \A j \in 1..(i - 1) : s[j] = t[j]
        /\ \/ i > Len(s) /\ i <= Len(t)
           \/ i <= Len(s) /\ i <= Len(t) /\ s[i] < t[i]

AtPositions(s) == {i \in 1..Len(s) : s[i] = At}

\* The k-th '@' of s (0 before the string, Len(s)+1 after it).
AtPos(s, k) ==
    IF k = 0 THEN 0
    ELSE IF k > Cardinality(AtPositions(s)) THEN Len(s) + 1
    ELSE CHOOSE i \in AtPositions(s) :
             Cardinality({j \in AtPositions(s) : j <= i}) = k

\* strings.Split(s, "@"): the segments between the '@'s, one more than '@'s.
Split(s) ==
    [k \in 1..(Cardinality(AtPositions(s)) + 1) |->
        SubSeq(s, AtPos(s, k - 1) + 1, AtPos(s, k) - 1)]

RECURSIVE Join(_)
\* strings.Join(parts, "@")
Join(parts) ==
    IF Len(parts) = 0 THEN <<>>
    ELSE IF Len(parts) = 1 THEN parts[1]
    ELSE parts[1] \o <<At>> \o Join(Tail(parts))

\* changeEmailDomain: addrParts[1] = domain panics (index out of range) when
\* the split has a single segment.
\* changeEmailDomain replacing the last segment instead of the one at index 1.
changeEmailDomainLast(email, domain) ==
    LET addrParts == Split(email)
    IN  IF Len(addrParts) < 2
        THEN [panics |-> TRUE, val |-> <<>>]
        ELSE [panics |-> FALSE,
              val |-> Join([addrParts EXCEPT ![Len(addrParts)] = domain])]

\* changeEmailDomain assigning to index 0, the local part.
changeEmailDomainFirst(email, domain) ==
    LET addrParts == Split(email)
    IN  IF Len(addrParts) < 2
        THEN [panics |-> TRUE, val |-> <<>>]
        ELSE [panics |-> FALSE,
              val |-> Join([addrParts EXCEPT ![1] = domain])]

changeEmailDomain(email, domain) ==
    LET addrParts == Split(email)
    IN  IF Len(addrParts) < 2
        THEN [panics |-> TRUE, val |-> <<>>]
        ELSE [panics |-> FALSE,
              val |-> Join([addrParts EXCEPT ![2] = domain])]

\* emailNewDomain passing the old domain.
emailNewDomainAsOld(email) == changeEmailDomain(email, oldDomain)

emailNewDomain(email) == changeEmailDomain(email, newDomain)

\* emailOldDomain passing the new domain.
emailOldDomainAsNew(email) == changeEmailDomain(email, newDomain)

emailOldDomain(email) == changeEmailDomain(email, oldDomain)

\* hasAlias returning from inside the loop: only the first alias is compared.
hasAliasFirstOnly(alias, aliases) == Len(aliases) > 0 /\ alias = aliases[1]

hasAlias(alias, aliases) == \E i \in 1..Len(aliases) : alias = aliases[i]

\* strings.ToLower on the answers the model types.
ToLower(code) ==
    CASE code = "Y" -> "y"
      [] code = "N" -> "n"
      [] code = "YES" -> "yes"
      [] OTHER -> code

\* ------------------------------------------------------------- state
VARIABLES
    pc,        \* position of main: the call it is about to make, or how it ended
    exitMsg,   \* the message of the log.Fatal call that ended the run
    customer,  \* the directory's customer record
    users,     \* the directory's users, by id
    groups,    \* the directory's groups, by id
    dcust,     \* d.cust, the customer record read at construction
    ruUsers,   \* ru.Users, the listing UpdateUsers iterates
    guGroups,  \* gu.Groups, the listing UpdateGroups iterates
    idx,       \* index of the range loop over the listing
    aidx,      \* 0: the rename of list[idx] is next; k: its k-th alias is next
    cur,       \* the *admin.User / *admin.Group handed to the alias pass
    log,       \* the directory calls of this run, in order
    asked,     \* the prompts of this run and what was read
    stdout,    \* what the passes printed per principal, in order
    run,       \* number of the current run of the tool
    start,     \* the directory as it was when the current run started
    prev,      \* the finished runs
    fn         \* an application of changeEmailDomain on its own

vars == <<pc, exitMsg, customer, users, groups, dcust, ruUsers, guGroups, idx,
          aidx, cur, log, asked, stdout, run, start, prev, fn>>

NoCust == [Id |-> 0, CustomerDomain |-> <<>>]
NoCur == [Id |-> 0, Aliases |-> <<>>]
NoFn == [called |-> FALSE, email |-> <<>>, domain |-> <<>>,
         panics |-> FALSE, val |-> <<>>]

Locals == {<<97>>, <<98>>}
Domains == {oldDomain, newDomain, otherDomain}
MkAddr(local, domain) == local \o <<At>> \o domain
Addr == {MkAddr(l, d) : l \in Locals, d \in Domains}

Answers == {"y", "Y", "n", "N", "yes"}

\* Aliases of the directory: at most MaxAliases (principal, address) pairs.
Placements ==
    UNION {[1..n -> (1..(MaxUsers + MaxGroups)) \X Addr] : n \in 0..MaxAliases}

AliasesOf(pl, s) ==
    LET mine == SelectSeq(pl, LAMBDA p : p[1] = s)
    IN  [i \in 1..Len(mine) |-> mine[i][2]]

\* "c00" .. "c99": the local parts of a directory larger than one page.
FillLocal(i) == <<99, 48 + (i \div 10), 48 + (i % 10)>>

Snapshot(c, u, g) == [customer |-> c, users |-> u, groups |-> g]

InitRun(c, u, g) ==
    /\ pc = "NewDomainChanger"
    /\ exitMsg = ""
    /\ customer = c
    /\ users = u
    /\ groups = g
    /\ dcust = NoCust
    /\ ruUsers = <<>>
    /\ guGroups = <<>>
    /\ idx = 0
    /\ aidx = 0
    /\ cur = NoCur
    /\ log = <<>>
    /\ asked = <<>>
    /\ stdout = <<>>
    /\ run = 1
    /\ start = Snapshot(c, u, g)
    /\ prev = <<>>
    /\ fn = NoFn

\* A directory of at most maxU users and maxG groups whose addresses are all
\* different.
InitSmall(maxU, maxG) ==
    \E nu \in 0..maxU, ng \in 0..maxG, cd \in {oldDomain, newDomain} :
      \E prim \in [1..(nu + ng) -> Addr], pl \in Placements :
        /\ \A i, j \in 1..(nu + ng) : prim[i] = prim[j] => i = j
        /\ \A k \in 1..Len(pl) :
              /\ pl[k][1] <= nu + ng
              /\ \A i \in 1..(nu + ng) : pl[k][2] # prim[i]
              /\ \A m \in 1..Len(pl) : pl[k][2] = pl[m][2] => k = m
        /\ InitRun([Id |-> 900, CustomerDomain |-> cd],
                   [i \in 1..nu |-> [Id |-> i, PrimaryEmail |-> prim[i],
                                     Aliases |-> AliasesOf(pl, i)]],
                   [i \in 1..ng |-> [Id |-> i, Email |-> prim[nu + i],
                                     Aliases |-> AliasesOf(pl, nu + i)]])

\* A directory of one user more than a listing page holds.
InitLarge ==
    \E cd \in {oldDomain, newDomain} :
        InitRun([Id |-> 900, CustomerDomain |-> cd],
                [i \in 1..(UsersMaxResults + 1) |->
                    [Id |-> i, PrimaryEmail |-> MkAddr(FillLocal(i - 1), oldDomain),
                     Aliases |-> <<>>]],
                <<>>)

Init == InitSmall(MaxUsers, MaxGroups) \/ InitLarge

\* The directories of the runs in succession.
InitTwice == InitSmall(MaxUsersTwice, MaxGroups) \/ InitLarge

\* ------------------------------------------------------------ directory
Call(op, key, arg, ok) == [op |-> op, key |-> key, arg |-> arg, ok |-> ok]

\* Users.List().Customer("my_customer").MaxResults(50).OrderBy("email").Do():
\* one page, ascending by primary email.  No page token is followed.
UserBefore(i, j) ==
    \/ LexLess(users[i].PrimaryEmail, users[j].PrimaryEmail)
    \/ users[i].PrimaryEmail = users[j].PrimaryEmail /\ i < j

ListUsers ==
    LET ids == DOMAIN users
        rank(i) == Cardinality({j \in ids : UserBefore(j, i)}) + 1
    IN  [k \in 1..Min(Len(users), UsersMaxResults) |->
            users[CHOOSE i \in ids : rank(i) = k]]

\* Groups.List().Customer(d.cust.Id).Do(): the groups in the directory's order.
ListGroups == groups

\* log.Fatal*: the process exits.
Fatal(msg) == pc' = "exit" /\ exitMsg' = msg

\* a runtime panic: the process crashes.
Panic == pc' = "panic" /\ exitMsg' = "panic"

\* checkNewDomain: false when the customer's domain is already the new one.
checkNewDomain == dcust.CustomerDomain # newDomain

\* -------------------------------------------------------------- actions
\* NewDomainChanger, which reads the customer record (GetCustomer).
NewDomainChanger ==
    /\ pc = "NewDomainChanger"
    /\ \E new \in BOOLEAN, ok \in BOOLEAN :
        IF ~new
        THEN \* admin.New failed: main ends the run
             /\ Fatal("Unable to initialize domain changer")
             /\ UNCHANGED <<dcust, log>>
        ELSE /\ log' = Append(log, Call("Customers.Get", 0, <<>>, ok))
             /\ IF ok
                THEN dcust' = customer /\ pc' = "ChangePrimaryDomain"
                     /\ UNCHANGED exitMsg
                ELSE Fatal("Unable to retrieve customer data.")
                     /\ UNCHANGED dcust
    /\ UNCHANGED <<customer, users, groups, ruUsers, guGroups, idx, aidx, cur,
                   asked, stdout, run, start, prev, fn>>

\* The first prompt testing for the wrong answer.
DeclinedWrongAnswer(code) == ToLower(code) = "y"

\* The first prompt testing as the second one does: anything but "y" ends
\* the run.
DeclinedUnlessYes(code) == ToLower(code) # "y"

\* line 97: strings.ToLower(code) == "n" ends the run at the first prompt.
Declined(code) == ToLower(code) = "n"

\* The second prompt testing as the first one does: anything but "n" goes on.
ConfirmedUnlessNo(code) == ToLower(code) # "n"

\* line 110: strings.ToLower(code) != "y" ends the run at the second prompt.
Confirmed(code) == ToLower(code) = "y"

Ask(prompt, read, code) ==
    [prompt |-> prompt, read |-> read, code |-> IF read THEN code ELSE ""]

\* ChangePrimaryDomain: the two prompts and the customer update.
ChangePrimaryDomain ==
    /\ pc = "ChangePrimaryDomain"
    /\ \E read \in BOOLEAN, code \in Answers, ok \in BOOLEAN :
        IF ~checkNewDomain
        THEN /\ asked' = Append(asked, Ask("continue", read, code))
             /\ IF ~read THEN Fatal("Unable to read response")
                ELSE IF Declined(code) THEN Fatal("Done.")
                ELSE pc' = "UpdateUsers" /\ UNCHANGED exitMsg
             /\ UNCHANGED <<customer, log>>
        ELSE /\ asked' = Append(asked, Ask("confirm", read, code))
             /\ IF ~read
                THEN Fatal("Unable to read response") /\ UNCHANGED <<customer, log>>
                ELSE IF ~Confirmed(code)
                THEN Fatal("Abort!") /\ UNCHANGED <<customer, log>>
                ELSE /\ log' = Append(log, Call("Customers.Update", dcust.Id,
                                                newDomain, ok))
                     /\ IF ok
                        THEN /\ customer' = [customer EXCEPT
                                                !.CustomerDomain = newDomain]
                             /\ pc' = "UpdateUsers"
                             /\ UNCHANGED exitMsg
                        ELSE /\ Fatal("Unable to update customer primary domain.")
                             /\ UNCHANGED customer
    /\ UNCHANGED <<users, groups, dcust, ruUsers, guGroups, idx, aidx, cur,
                   stdout, run, start, prev, fn>>

\* The line of a principal always being the "Changing ..." one.
SaidRenamed(type, id, what) == [type |-> type, id |-> id, what |-> "changed"]

\* What the pass prints for one principal: "Email address for ... is already"
\* or "Changing ... Done."
Said(type, id, what) == [type |-> type, id |-> id, what |-> what]

\* The alias pass of principal c starts (c is the object handed to it); with
\* no alias to look at, the range loop of the listing moves on.
EnterAliases(c, listLen, nextPc) ==
    IF Len(c.Aliases) > 0
    THEN cur' = c /\ aidx' = 1 /\ UNCHANGED <<idx, pc>>
    ELSE IF idx < listLen
    THEN cur' = NoCur /\ aidx' = 0 /\ idx' = idx + 1 /\ UNCHANGED pc
    ELSE cur' = NoCur /\ aidx' = 0 /\ idx' = 0 /\ pc' = nextPc

\* The alias pass returning out of the range loop of the listing: after the
\* aliases of one principal the whole pass is over.
LeaveAliasEndsPass(listLen, nextPc) ==
    IF aidx < Len(cur.Aliases)
    THEN aidx' = aidx + 1 /\ UNCHANGED <<cur, idx, pc>>
    ELSE cur' = NoCur /\ aidx' = 0 /\ idx' = 0 /\ pc' = nextPc

\* The alias loop has handled alias aidx of cur.
LeaveAlias(listLen, nextPc) ==
    IF aidx < Len(cur.Aliases)
    THEN aidx' = aidx + 1 /\ UNCHANGED <<cur, idx, pc>>
    ELSE IF idx < listLen
    THEN cur' = NoCur /\ aidx' = 0 /\ idx' = idx + 1 /\ UNCHANGED pc
    ELSE cur' = NoCur /\ aidx' = 0 /\ idx' = 0 /\ pc' = nextPc

\* What the alias pass prints for an insert call: " New alias added ..." or
\* " Could not add new alias ...".
SaidAlias(type, id, alias, what) ==
    [type |-> type \o " alias", id |-> id, alias |-> alias, what |-> what]

\* An alias insert failing with log.Fatalf, as a failed update does.
InsertFailedFatal(listLen, nextPc) ==
    /\ Fatal("Could not add new alias")
    /\ UNCHANGED <<idx, aidx, cur>>

\* errA != nil: the failure is printed and the loop goes on.
InsertFailed(listLen, nextPc) ==
    /\ LeaveAlias(listLen, nextPc)
    /\ UNCHANGED exitMsg

\* UpdateUsers going on to the groups when the listing call failed.
UpdateUsersNoFatal ==
    /\ pc = "UpdateUsers"
    /\ \E ok \in BOOLEAN :
        /\ log' = Append(log, Call("Users.List", 0, <<>>, ok))
        /\ UNCHANGED exitMsg
        /\ IF ~ok
           THEN pc' = "UpdateGroups" /\ UNCHANGED <<ruUsers, idx>>
           ELSE /\ ruUsers' = ListUsers
                /\ IF Len(ListUsers) = 0
                   THEN pc' = "UpdateGroups" /\ UNCHANGED idx
                   ELSE pc' = "UserLoop" /\ idx' = 1
    /\ UNCHANGED <<customer, users, groups, dcust, guGroups, aidx, cur, asked,
                   stdout, run, start, prev, fn>>

\* UpdateUsers, up to the range loop: the listing call.
UpdateUsers ==
    /\ pc = "UpdateUsers"
    /\ \E ok \in BOOLEAN :
        /\ log' = Append(log, Call("Users.List", 0, <<>>, ok))
        /\ IF ~ok
           THEN /\ Fatal("Unable to retrieve users in domain.")
                /\ UNCHANGED <<ruUsers, idx>>
           ELSE /\ ruUsers' = ListUsers
                /\ UNCHANGED exitMsg
                /\ IF Len(ListUsers) = 0
                   THEN pc' = "UpdateGroups" /\ UNCHANGED idx
                   ELSE pc' = "UserLoop" /\ idx' = 1
    /\ UNCHANGED <<customer, users, groups, dcust, guGroups, aidx, cur, asked,
                   stdout, run, start, prev, fn>>

\* Users.Update failed and the failure is only printed: the loop goes on.
UserUpdateFailedGoesOn(u, nilUser) ==
    /\ EnterAliases(u, Len(ruUsers), "UpdateGroups")
    /\ UNCHANGED <<stdout, exitMsg>>

\* Users.Update failed: log.Fatalf, whose arguments read u.Name of the user
\* the call returned (a nil pointer when nilUser).
UserUpdateFailed(u, nilUser) ==
    /\ IF nilUser THEN Panic ELSE Fatal("Unable to update user")
    /\ UNCHANGED <<stdout, idx, aidx, cur>>

\* One iteration of the loop of UpdateUsers, up to the alias pass: the rename.
UserRename ==
    /\ pc = "UserLoop" /\ aidx = 0
    /\ LET u == ruUsers[idx]
           emailUpdate == emailNewDomain(u.PrimaryEmail)
       IN  IF emailUpdate.panics
           THEN Panic /\ UNCHANGED <<users, ruUsers, log, stdout, idx, aidx, cur>>
           ELSE IF emailUpdate.val = u.PrimaryEmail
           THEN /\ stdout' = Append(stdout, Said("user", u.Id, "already"))
                /\ EnterAliases(u, Len(ruUsers), "UpdateGroups")
                /\ UNCHANGED <<users, ruUsers, log, exitMsg>>
           ELSE \E ok \in BOOLEAN, nilUser \in BOOLEAN :
                \* u.PrimaryEmail = emailUpdate, on the listing's own object
                /\ ruUsers' = [ruUsers EXCEPT ![idx].PrimaryEmail =
                                                 emailUpdate.val]
                /\ log' = Append(log, Call("Users.Update", u.Id,
                                           emailUpdate.val, ok))
                /\ IF ok
                   THEN /\ users' = [users EXCEPT ![u.Id].PrimaryEmail =
                                                      emailUpdate.val]
                        /\ stdout' = Append(stdout, Said("user", u.Id, "changed"))
                        \* u is now the user the update call returned
                        /\ EnterAliases([users[u.Id] EXCEPT !.PrimaryEmail =
                                            emailUpdate.val],
                                        Len(ruUsers), "UpdateGroups")
                        /\ UNCHANGED exitMsg
                   ELSE UserUpdateFailed(u, nilUser) /\ UNCHANGED users
    /\ UNCHANGED <<customer, groups, dcust, guGroups, asked, run, start, prev, fn>>

\* One iteration of the loop of UpdateUserAliases.
UserAlias ==
    /\ pc = "UserLoop" /\ aidx >= 1
    /\ LET a == cur.Aliases[aidx]
           oldAddress == emailOldDomain(cur.PrimaryEmail)
           newA == emailNewDomain(a)
       IN  IF oldAddress.panics \/ (a # oldAddress.val /\ newA.panics)
           THEN Panic /\ UNCHANGED <<users, log, idx, aidx, cur>>
           ELSE IF a # oldAddress.val /\ ~hasAlias(newA.val, cur.Aliases)
           THEN \E ok \in BOOLEAN :
                /\ log' = Append(log, Call("Users.Aliases.Insert",
                                           cur.Id, newA.val, ok))
                /\ IF ok
                   THEN /\ users' = [users EXCEPT ![cur.Id].Aliases =
                                                      Append(@, newA.val)]
                        /\ stdout' = Append(stdout,
                                            SaidAlias("user", cur.Id, newA.val,
                                                      "added"))
                        /\ LeaveAlias(Len(ruUsers), "UpdateGroups")
                        /\ UNCHANGED exitMsg
                   ELSE /\ UNCHANGED users
                        /\ stdout' = Append(stdout,
                                            SaidAlias("user", cur.Id, newA.val,
                                                      "could not add"))
                        /\ InsertFailed(Len(ruUsers), "UpdateGroups")
           ELSE /\ LeaveAlias(Len(ruUsers), "UpdateGroups")
                /\ UNCHANGED <<users, log, stdout, exitMsg>>
    /\ UNCHANGED <<customer, groups, dcust, ruUsers, guGroups, asked,
                   run, start, prev, fn>>

\* UpdateGroups, up to the range loop: the listing call.
UpdateGroups ==
    /\ pc = "UpdateGroups"
    /\ \E ok \in BOOLEAN :
        /\ log' = Append(log, Call("Groups.List", dcust.Id, <<>>, ok))
        /\ IF ~ok
           THEN /\ Fatal("Unable to retrieve groups in domain.")
                /\ UNCHANGED <<guGroups, idx>>
           ELSE /\ guGroups' = ListGroups
                /\ UNCHANGED exitMsg
                /\ IF Len(ListGroups) = 0
                   THEN pc' = "complete" /\ UNCHANGED idx
                   ELSE pc' = "GroupLoop" /\ idx' = 1
    /\ UNCHANGED <<customer, users, groups, dcust, ruUsers, aidx, cur, asked,
                   stdout, run, start, prev, fn>>

\* Groups.Update failed: log.Fatalf, whose arguments read g.Name of the group
\* the call returned (a nil pointer when nilGroup).
GroupUpdateFailed(g, nilGroup) ==
    /\ IF nilGroup THEN Panic ELSE Fatal("Unable to update group")
    /\ UNCHANGED <<stdout, idx, aidx, cur>>

\* One iteration of the loop of UpdateGroups, up to the alias pass.
GroupRename ==
    /\ pc = "GroupLoop" /\ aidx = 0
    /\ LET g == guGroups[idx]
           emailUpdate == emailNewDomain(g.Email)
       IN  IF emailUpdate.panics
           THEN Panic /\ UNCHANGED <<groups, guGroups, log, stdout, idx, aidx, cur>>
           ELSE IF emailUpdate.val = g.Email
           THEN /\ stdout' = Append(stdout, Said("group", g.Id, "already"))
                /\ EnterAliases(g, Len(guGroups), "complete")
                /\ UNCHANGED <<groups, guGroups, log, exitMsg>>
           ELSE \E ok \in BOOLEAN, nilGroup \in BOOLEAN :
                \* g.Email = emailUpdate, on the listing's own object
                /\ guGroups' = [guGroups EXCEPT ![idx].Email = emailUpdate.val]
                /\ log' = Append(log, Call("Groups.Update", g.Id,
                                           emailUpdate.val, ok))
                /\ IF ok
                   THEN /\ groups' = [groups EXCEPT ![g.Id].Email =
                                                        emailUpdate.val]
                        /\ stdout' = Append(stdout, Said("group", g.Id, "changed"))
                        \* the group the call returned is a new g of the
                        \* inner block: the alias pass gets the listing's
                        /\ EnterAliases([g EXCEPT !.Email = emailUpdate.val],
                                        Len(guGroups), "complete")
                        /\ UNCHANGED exitMsg
                   ELSE GroupUpdateFailed(g, nilGroup) /\ UNCHANGED groups
    /\ UNCHANGED <<customer, users, dcust, ruUsers, asked, run, start, prev, fn>>

\* One iteration of the loop of UpdateGroupAliases.
GroupAlias ==
    /\ pc = "GroupLoop" /\ aidx >= 1
    /\ LET a == cur.Aliases[aidx]
           oldAddress == emailOldDomain(cur.Email)
           newA == emailNewDomain(a)
       IN  IF oldAddress.panics \/ (a # oldAddress.val /\ newA.panics)
           THEN Panic /\ UNCHANGED <<groups, log, idx, aidx, cur>>
           ELSE IF a # oldAddress.val /\ ~hasAlias(newA.val, cur.Aliases)
           THEN \E ok \in BOOLEAN :
                /\ log' = Append(log, Call("Groups.Aliases.Insert",
                                           cur.Id, newA.val, ok))
                /\ IF ok
                   THEN /\ groups' = [groups EXCEPT ![cur.Id].Aliases =
                                                        Append(@, newA.val)]
                        /\ stdout' = Append(stdout,
                                            SaidAlias("group", cur.Id, newA.val,
                                                      "added"))
                        /\ LeaveAlias(Len(guGroups), "complete")
                        /\ UNCHANGED exitMsg
                   ELSE /\ UNCHANGED groups
                        /\ stdout' = Append(stdout,
                                            SaidAlias("group", cur.Id, newA.val,
                                                      "could not add"))
                        /\ InsertFailed(Len(guGroups), "complete")
           ELSE /\ LeaveAlias(Len(guGroups), "complete")
                /\ UNCHANGED <<groups, log, stdout, exitMsg>>
    /\ UNCHANGED <<customer, users, dcust, ruUsers, guGroups, asked,
                   run, start, prev, fn>>

Ids(list) == [k \in 1..Len(list) |-> list[k].Id]

\* After a run that printed "Process complete." the operator runs the tool
\* again, with the same flags, on the directory as that run left it.
NextRun ==
    /\ pc = "complete"
    /\ run < MaxRuns
    /\ prev' = Append(prev, [pc |-> pc, log |-> log, asked |-> asked,
                             users |-> Ids(ruUsers), groups |-> Ids(guGroups)])
    /\ run' = run + 1
    /\ start' = Snapshot(customer, users, groups)
    /\ pc' = "NewDomainChanger"
    /\ exitMsg' = ""
    /\ dcust' = NoCust
    /\ ruUsers' = <<>>
    /\ guGroups' = <<>>
    /\ idx' = 0
    /\ aidx' = 0
    /\ cur' = NoCur
    /\ log' = <<>>
    /\ asked' = <<>>
    /\ stdout' = <<>>
    /\ UNCHANGED <<customer, users, groups, fn>>

\* One run of the tool.
Next ==
    \/ NewDomainChanger
    \/ ChangePrimaryDomain
    \/ UpdateUsers
    \/ UserRename
    \/ UserAlias
    \/ UpdateGroups
    \/ GroupRename
    \/ GroupAlias

Spec == Init /\ [][Next]_vars

\* Runs of the tool in succession.
NextTwice ==
    \/ NewDomainChanger
    \/ ChangePrimaryDomain
    \/ UpdateUsers
    \/ UserRename
    \/ UserAlias
    \/ UpdateGroups
    \/ GroupRename
    \/ GroupAlias
    \/ NextRun

SpecTwice == InitTwice /\ [][NextTwice]_vars

\* ------------------------------------- changeEmailDomain on its own
Alphabet == {97, 98, At}
Strings(n) == UNION {[1..k -> Alphabet] : k \in 0..n}

InitFn ==
    /\ pc = "fn"
    /\ exitMsg = ""
    /\ customer = NoCust
    /\ users = <<>>
    /\ groups = <<>>
    /\ dcust = NoCust
    /\ ruUsers = <<>>
    /\ guGroups = <<>>
    /\ idx = 0
    /\ aidx = 0
    /\ cur = NoCur
    /\ log = <<>>
    /\ asked = <<>>
    /\ stdout = <<>>
    /\ run = 1
    /\ start = Snapshot(NoCust, <<>>, <<>>)
    /\ prev = <<>>
    /\ \E email \in Strings(MaxLen), domain \in Domains :
          fn = [NoFn EXCEPT !.email = email, !.domain = domain]

Applied(ret, domain) ==
    [fn EXCEPT !.called = TRUE, !.domain = domain, !.panics = ret.panics,
               !.val = ret.val]

CallChangeEmailDomain ==
    /\ pc = "fn" /\ ~fn.called
    /\ fn' = Applied(changeEmailDomain(fn.email, fn.domain), fn.domain)
    /\ UNCHANGED <<pc, exitMsg, customer, users, groups, dcust, ruUsers,
                   guGroups, idx, aidx, cur, log, asked, stdout, run, start, prev>>

CallEmailNewDomain ==
    /\ pc = "fn" /\ ~fn.called
    /\ fn' = Applied(emailNewDomain(fn.email), newDomain)
    /\ UNCHANGED <<pc, exitMsg, customer, users, groups, dcust, ruUsers,
                   guGroups, idx, aidx, cur, log, asked, stdout, run, start, prev>>

CallEmailOldDomain ==
    /\ pc = "fn" /\ ~fn.called
    /\ fn' = Applied(emailOldDomain(fn.email), oldDomain)
    /\ UNCHANGED <<pc, exitMsg, customer, users, groups, dcust, ruUsers,
                   guGroups, idx, aidx, cur, log, asked, stdout, run, start, prev>>

NextFn ==
    \/ CallChangeEmailDomain
    \/ CallEmailNewDomain
    \/ CallEmailOldDomain

SpecFn == InitFn /\ [][NextFn]_vars

\* ---------------------------------------------------- words of the claims
\* The first '@' of an address that has one.
FirstAt(s) == CHOOSE i \in AtPositions(s) : \A j \in AtPositions(s) : i <= j
LocalOf(s) == SubSeq(s, 1, FirstAt(s) - 1)
DomainOf(s) == SubSeq(s, FirstAt(s) + 1, Len(s))
NumAt(s) == Cardinality(AtPositions(s))

\* C5 as stated: for any address local@domain and any target domain D the
\* rewrite returns local@D, local being the text before the first '@' and
\* everything after the first '@' being replaced by D.
C5_WholeDomainReplaced ==
    (fn.called /\ NumAt(fn.email) >= 1) =>
        /\ ~fn.panics
        /\ fn.val = LocalOf(fn.email) \o <<At>> \o fn.domain

\* C5 as amended: for any address with exactly one '@' the rewrite returns
\* local@D with the local part unchanged; with more than one '@' only the
\* segment between the first and the second '@' is replaced by D and the
\* text from the second '@' on is kept.
C5_DomainSegmentRewrite ==
    (fn.called /\ NumAt(fn.email) >= 1) =>
        /\ ~fn.panics
        /\ LocalOf(fn.val) = LocalOf(fn.email)
        /\ IF NumAt(fn.email) = 1
           THEN fn.val = LocalOf(fn.email) \o <<At>> \o fn.domain
           ELSE fn.val = LocalOf(fn.email) \o <<At>> \o fn.domain
                         \o SubSeq(fn.email, AtPos(fn.email, 2), Len(fn.email))

C5_Witness ==
    /\ fn.called
    /\ NumAt(fn.email) = 1
    /\ Len(LocalOf(fn.email)) = 2
    /\ Len(DomainOf(fn.email)) = 1
    /\ fn.val # fn.email

\* C10 as stated: rewriting an address with no '@' ends in an error outcome,
\* not in a crash of the run.
C10_MalformedAddressNoCrash ==
    (fn.called /\ NumAt(fn.email) = 0) => ~fn.panics

MutationOps ==
    {"Customers.Update", "Users.Update", "Groups.Update",
     "Users.Aliases.Insert", "Groups.Aliases.Insert"}
UserOps == {"Users.Update", "Users.Aliases.Insert"}
GroupOps == {"Groups.Update", "Groups.Aliases.Insert"}
FatalOps == {"Customers.Get", "Customers.Update", "Users.List", "Groups.List"}

Mutations(l) == {k \in 1..Len(l) : l[k].op \in MutationOps}
AllOk(l) == \A k \in 1..Len(l) : l[k].ok
Range(seq) == {seq[k] : k \in 1..Len(seq)}
NoDup(seq) == \A i, j \in 1..Len(seq) : seq[i] = seq[j] => i = j

\* The addresses of the calls op made for principal id in this run, in order.
Planned(op, id) ==
    LET sel == SelectSeq(log, LAMBDA e : e.op = op /\ e.key = id)
    IN  [k \in 1..Len(sel) |-> sel[k].arg]

\* C2 as stated: every address that was the primary or an alias of a user or
\* group when the run started is its primary or one of its aliases when the
\* run has completed.
C2_ReachabilityPreserved ==
    pc = "complete" =>
        /\ \A i \in DOMAIN users :
              {start.users[i].PrimaryEmail} \cup Range(start.users[i].Aliases)
                 \subseteq {users[i].PrimaryEmail} \cup Range(users[i].Aliases)
        /\ \A i \in DOMAIN groups :
              {start.groups[i].Email} \cup Range(start.groups[i].Aliases)
                 \subseteq {groups[i].Email} \cup Range(groups[i].Aliases)

\* C3 as stated: when a run in which every answer was "y" and every directory
\* call succeeded has completed, every user and every group has a primary
\* address on the new domain.
C3_CompleteCoverage ==
    (/\ pc = "complete"
     /\ \A k \in 1..Len(asked) : asked[k].read /\ asked[k].code = "y"
     /\ AllOk(log)) =>
        /\ \A i \in DOMAIN users : DomainOf(users[i].PrimaryEmail) = newDomain
        /\ \A i \in DOMAIN groups : DomainOf(groups[i].Email) = newDomain

\* C4 as stated: for every principal, the aliases it had followed by the
\* aliases the run asked to insert for it hold no address twice.
C4_NoDuplicateAliases ==
    /\ \A i \in DOMAIN users :
          NoDup(start.users[i].Aliases \o Planned("Users.Aliases.Insert", i))
    /\ \A i \in DOMAIN groups :
          NoDup(start.groups[i].Aliases \o Planned("Groups.Aliases.Insert", i))

\* C6: a customer update call is in the run only when the second prompt was
\* answered "y" or "Y", such an answer is followed by the call, and after any
\* other answer to it the run has exited without a single mutation call.
C6_ConfirmationGate ==
    /\ (\E k \in 1..Len(log) : log[k].op = "Customers.Update") =>
          /\ Len(asked) = 1
          /\ asked[1].prompt = "confirm"
          /\ asked[1].read /\ asked[1].code \in {"y", "Y"}
          /\ dcust.CustomerDomain # newDomain
    /\ \A k \in 1..Len(asked) :
          (asked[k].prompt = "confirm" /\ asked[k].read) =>
              IF asked[k].code \in {"y", "Y"}
              THEN \E j \in 1..Len(log) : log[j].op = "Customers.Update"
              ELSE pc = "exit" /\ exitMsg = "Abort!" /\ Mutations(log) = {}

C6_Witness ==
    /\ Len(asked) = 1 /\ asked[1].prompt = "confirm" /\ asked[1].code = "Y"
    /\ \E k \in 1..Len(log) : log[k].op = "Customers.Update" /\ log[k].ok
    /\ \E k \in 1..Len(log) : log[k].op = "Users.Update"

\* C7: with the customer already on the new domain the first prompt is the
\* one asked, and after the answer "n" the run has exited with no listing
\* call, no mutation call and no principal visited.
C7_ContinueAnywayDeclined ==
    (dcust # NoCust /\ dcust.CustomerDomain = newDomain
       /\ pc # "ChangePrimaryDomain") =>
        /\ Len(asked) = 1
        /\ asked[1].prompt = "continue"
        /\ (asked[1].read /\ asked[1].code = "n") =>
              /\ pc = "exit" /\ exitMsg = "Done."
              /\ Mutations(log) = {}
              /\ \A k \in 1..Len(log) : log[k].op = "Customers.Get"
              /\ ruUsers = <<>> /\ guGroups = <<>> /\ stdout = <<>>

C7_Witness ==
    /\ Len(asked) = 1 /\ asked[1].prompt = "continue" /\ asked[1].code = "n"
    /\ pc = "exit"
    /\ \E i \in DOMAIN users : DomainOf(users[i].PrimaryEmail) = oldDomain
    /\ Len(groups) > 0

\* The lines printed for principals (not the lines of their aliases).
PrincipalLines ==
    SelectSeq(stdout, LAMBDA e : e.type \in {"user", "group"})

FailedUpdates ==
    {k \in 1..Len(log) : log[k].op \in {"Users.Update", "Groups.Update"}
                          /\ ~log[k].ok}

\* C8 as stated: after a failed update of a primary address the run goes on
\* with the next principal.
C8_RunGoesOnAfterFailedUpdate ==
    FailedUpdates # {} => pc \notin {"exit", "panic"}

\* C8 as amended: a failed update of a user's or group's primary address ends
\* the run at that call: it is the last directory call of the run, the
\* principal's record is as it was, and no later principal is visited.
C8_FailedUpdateEndsRun ==
    \A k \in FailedUpdates :
        /\ k = Len(log)
        /\ pc \in {"exit", "panic"}
        /\ log[k].op = "Users.Update" =>
              /\ log[k].key = ruUsers[idx].Id
              /\ users[log[k].key] = start.users[log[k].key]
              /\ Len(PrincipalLines) = idx - 1
              /\ guGroups = <<>>
        /\ log[k].op = "Groups.Update" =>
              /\ log[k].key = guGroups[idx].Id
              /\ groups[log[k].key] = start.groups[log[k].key]
              /\ Len(PrincipalLines) = Len(ruUsers) + idx - 1

C8_Witness ==
    /\ FailedUpdates # {}
    /\ pc = "exit"
    /\ log[Len(log)].op = "Users.Update"
    /\ idx < Len(ruUsers)
    /\ Len(groups) > 0

\* C9: a failed read of the customer, a failed customer update, a failed
\* listing of users or groups and a failed read of an answer each end the run
\* there: the run has exited and the failed call is its last directory call.
C9_FatalPolicy ==
    /\ \A k \in 1..Len(log) :
          (log[k].op \in FatalOps /\ ~log[k].ok) =>
              k = Len(log) /\ pc = "exit"
    /\ \A k \in 1..Len(asked) :
          ~asked[k].read =>
              /\ pc = "exit" /\ exitMsg = "Unable to read response"
              /\ Len(log) = 1 /\ log[1].op = "Customers.Get"

C9_Witness ==
    /\ pc = "exit"
    /\ Len(log) > 0 /\ log[Len(log)].op = "Groups.List" /\ ~log[Len(log)].ok
    /\ \E k \in 1..Len(log) : log[k].op = "Users.Aliases.Insert"

PrincipalTypes == {"user", "group"}

CountSaid(type, what) ==
    Cardinality({k \in 1..Len(stdout) :
                    stdout[k].type = type /\ stdout[k].what = what})

OkCalls(op, id) ==
    {k \in 1..Len(log) : log[k].op = op /\ log[k].key = id /\ log[k].ok}

CallsOf(op, id) == {k \in 1..Len(log) : log[k].op = op /\ log[k].key = id}

\* C11 as stated: when all phases have completed the run has printed, for
\* users and for groups, a line of counts, and its three counts are the
\* numbers of principals of that type renamed, already current and failed.
C11_ReportsCounts ==
    pc = "complete" =>
        \A type \in PrincipalTypes :
            \E k \in 1..Len(stdout) :
                /\ stdout[k].type = type
                /\ stdout[k].what = "counts"
                /\ stdout[k].renamed = CountSaid(type, "changed")
                /\ stdout[k].current = CountSaid(type, "already")
                /\ stdout[k].failed = 0

\* C11 as amended: when all phases have completed the run has printed no
\* counts; it has printed one line per listed principal, the users in listing
\* order and then the groups, saying renamed exactly for the principals whose
\* update call succeeded and already current exactly for those whose primary
\* address was on the new domain, and no update of the run has failed.
C11_PerPrincipalReport ==
    pc = "complete" =>
        /\ Len(PrincipalLines) = Len(ruUsers) + Len(guGroups)
        /\ \A k \in 1..Len(stdout) :
              stdout[k].what \in {"changed", "already", "added", "could not add"}
        /\ \A k \in 1..Len(ruUsers) :
              LET id == ruUsers[k].Id
                  was == start.users[id].PrimaryEmail
                  line == PrincipalLines[k]
              IN  /\ line.type = "user" /\ line.id = id
                  /\ line.what = "changed" <=> OkCalls("Users.Update", id) # {}
                  /\ line.what = "already" <=>
                        /\ emailNewDomain(was).val = was
                        /\ CallsOf("Users.Update", id) = {}
        /\ \A k \in 1..Len(guGroups) :
              LET id == guGroups[k].Id
                  was == start.groups[id].Email
                  line == PrincipalLines[Len(ruUsers) + k]
              IN  /\ line.type = "group" /\ line.id = id
                  /\ line.what = "changed" <=> OkCalls("Groups.Update", id) # {}
                  /\ line.what = "already" <=>
                        /\ emailNewDomain(was).val = was
                        /\ CallsOf("Groups.Update", id) = {}
        /\ FailedUpdates = {}

C11_Witness ==
    /\ pc = "complete"
    /\ CountSaid("user", "changed") = 1
    /\ CountSaid("user", "already") = 1
    /\ CountSaid("group", "changed") = 1

\* ------------------------------------------------------------------ C12
\* The reference plan of the claim over the first n aliases of L, for a
\* principal whose primary address is p: new-domain counterparts, in order,
\* of the aliases that are not p on the old domain and whose counterpart is
\* not in L.
RefPlan(p, L, n) ==
    LET sel == SelectSeq(SubSeq(L, 1, n),
                         LAMBDA a : /\ a # MkAddr(LocalOf(p), oldDomain)
                                    /\ MkAddr(LocalOf(a), newDomain)
                                          \notin Range(L))
    IN  [k \in 1..Len(sel) |-> MkAddr(LocalOf(sel[k]), newDomain)]

\* How many aliases of the k-th listed user the alias pass has handled.
UserAliasesSeen(k) ==
    IF pc = "UserLoop"
    THEN IF k < idx THEN Len(ruUsers[k].Aliases)
         ELSE IF k = idx /\ aidx >= 1 THEN aidx - 1
         ELSE 0
    ELSE Len(ruUsers[k].Aliases)

GroupAliasesSeen(k) ==
    IF pc = "GroupLoop"
    THEN IF k < idx THEN Len(guGroups[k].Aliases)
         ELSE IF k = idx /\ aidx >= 1 THEN aidx - 1
         ELSE 0
    ELSE Len(guGroups[k].Aliases)

InUserPassOrLater == pc \in {"UserLoop", "UpdateGroups", "GroupLoop", "complete"}
InGroupPassOrLater == pc \in {"GroupLoop", "complete"}

\* C12: for every listed principal, the alias insert calls issued for it are,
\* in order, the reference plan over the aliases its alias pass has handled
\* (all of them once its pass is over): an alias that is the primary on the
\* old domain, or whose counterpart is in the list, causes no insert.
C12_AliasPlanIsReference ==
    /\ InUserPassOrLater =>
          \A k \in 1..Len(ruUsers) :
              Planned("Users.Aliases.Insert", ruUsers[k].Id) =
                  RefPlan(users[ruUsers[k].Id].PrimaryEmail,
                          ruUsers[k].Aliases, UserAliasesSeen(k))
    /\ InGroupPassOrLater =>
          \A k \in 1..Len(guGroups) :
              Planned("Groups.Aliases.Insert", guGroups[k].Id) =
                  RefPlan(groups[guGroups[k].Id].Email,
                          guGroups[k].Aliases, GroupAliasesSeen(k))

\* A user already on the new domain with its old-domain address as one of two
\* aliases: one insert, for the other alias.
C12_Witness ==
    /\ pc = "complete"
    /\ \E k \in 1..Len(ruUsers) :
          LET id == ruUsers[k].Id
          IN  /\ Len(ruUsers[k].Aliases) = 2
              /\ MkAddr(LocalOf(users[id].PrimaryEmail), oldDomain)
                    \in Range(ruUsers[k].Aliases)
              /\ Len(Planned("Users.Aliases.Insert", id)) = 1

\* ------------------------------------------------------------------ C13
OnNewDomain(address) == DomainOf(address) = newDomain

\* C13: no update call is ever issued for a principal whose primary address
\* was on the new domain, and its aliases are handled all the same; a
\* principal whose primary address was not gets exactly one update call, and
\* every alias insert for it comes after that call.
C13_AlreadyCurrentNoUpdate ==
    /\ InUserPassOrLater =>
          \A k \in 1..Len(ruUsers) :
              LET id == ruUsers[k].Id
                  upd == CallsOf("Users.Update", id)
                  ins == CallsOf("Users.Aliases.Insert", id)
                  done == UserAliasesSeen(k) = Len(ruUsers[k].Aliases)
                             /\ (pc = "UserLoop" => k < idx)
              IN  IF OnNewDomain(start.users[id].PrimaryEmail)
                  THEN /\ upd = {}
                       /\ done => Len(Planned("Users.Aliases.Insert", id)) =
                                     Len(RefPlan(start.users[id].PrimaryEmail,
                                                 start.users[id].Aliases,
                                                 Len(start.users[id].Aliases)))
                  ELSE /\ Cardinality(upd) <= 1
                       /\ \A i \in ins : \E j \in upd : j < i /\ log[j].ok
                       /\ done => Cardinality(upd) = 1
    /\ InGroupPassOrLater =>
          \A k \in 1..Len(guGroups) :
              LET id == guGroups[k].Id
                  upd == CallsOf("Groups.Update", id)
                  ins == CallsOf("Groups.Aliases.Insert", id)
                  done == GroupAliasesSeen(k) = Len(guGroups[k].Aliases)
                             /\ (pc = "GroupLoop" => k < idx)
              IN  IF OnNewDomain(start.groups[id].Email)
                  THEN /\ upd = {}
                       /\ done => Len(Planned("Groups.Aliases.Insert", id)) =
                                     Len(RefPlan(start.groups[id].Email,
                                                 start.groups[id].Aliases,
                                                 Len(start.groups[id].Aliases)))
                  ELSE /\ Cardinality(upd) <= 1
                       /\ \A i \in ins : \E j \in upd : j < i /\ log[j].ok
                       /\ done => Cardinality(upd) = 1

\* An already current user whose alias pass issued an insert, next to a user
\* that was renamed and then got an insert.
C13_Witness ==
    /\ pc = "complete"
    /\ \E k \in 1..Len(ruUsers) :
          /\ OnNewDomain(start.users[ruUsers[k].Id].PrimaryEmail)
          /\ CallsOf("Users.Aliases.Insert", ruUsers[k].Id) # {}
    /\ \E k \in 1..Len(ruUsers) :
          /\ ~OnNewDomain(start.users[ruUsers[k].Id].PrimaryEmail)
          /\ CallsOf("Users.Update", ruUsers[k].Id) # {}
          /\ CallsOf("Users.Aliases.Insert", ruUsers[k].Id) # {}

\* ------------------------------------------------------------------ C14
UserPhaseOps == UserOps \cup {"Users.List"}
GroupPhaseOps == GroupOps \cup {"Groups.List"}

\* The first prompt was the continue-anyway one and the answer read was yes.
ContinueYes ==
    /\ Len(asked) >= 1
    /\ asked[1].prompt = "continue"
    /\ asked[1].read
    /\ asked[1].code \in {"y", "Y", "yes"}

\* C14: with the customer already on the new domain and the answer yes, no
\* customer update call is issued and the customer record stays as it was, no
\* second question is asked, the run is not ended by the prompt, its next
\* call is the listing of the users, and every call of the user pass comes
\* before every call of the group pass.
C14_SkipDomainUpdate ==
    ContinueYes =>
        /\ Len(asked) = 1
        /\ \A k \in 1..Len(log) : log[k].op # "Customers.Update"
        /\ customer = start.customer
        /\ exitMsg \notin {"Done.", "Abort!", "Unable to read response"}
        /\ pc \in {"UpdateUsers", "UserLoop", "UpdateGroups", "GroupLoop",
                   "complete", "exit", "panic"}
        /\ Len(log) >= 2 => log[2].op = "Users.List"
        /\ \A i, j \in 1..Len(log) :
              (log[i].op \in UserPhaseOps /\ log[j].op \in GroupPhaseOps) => i < j
        /\ pc \in {"GroupLoop", "complete"} =>
              /\ \E k \in 1..Len(log) : log[k].op = "Users.List" /\ log[k].ok
              /\ \E k \in 1..Len(log) : log[k].op = "Groups.List" /\ log[k].ok

C14_Witness ==
    /\ ContinueYes /\ asked[1].code = "yes"
    /\ pc = "complete"
    /\ \E k \in 1..Len(log) : log[k].op = "Users.Update"
    /\ \E k \in 1..Len(log) : log[k].op = "Groups.Update"

\* ------------------------------------------------------------------ C15
NumCalls(op) == Cardinality({k \in 1..Len(log) : log[k].op = op})

PosUser(id) == CHOOSE k \in 1..Len(ruUsers) : ruUsers[k].Id = id
PosGroup(id) == CHOOSE k \in 1..Len(guGroups) : guGroups[k].Id = id

\* The ids of the principals of one type the run has printed a line for.
SaidIds(type) ==
    LET sel == SelectSeq(stdout, LAMBDA e : e.type = type)
    IN  [k \in 1..Len(sel) |-> sel[k].id]

IsPrefix(s, t) == Len(s) <= Len(t) /\ s = SubSeq(t, 1, Len(s))

\* C15: the customer update call, at most one, comes before every call of the
\* user pass; every call of the user pass comes before every call of the
\* group pass; no listing is called twice; the calls and the lines of a pass
\* follow the listing order, at most one update call per principal; and a
\* completed run has visited each listed principal once.
C15_PhaseOrdering ==
    /\ NumCalls("Customers.Update") <= 1
    /\ NumCalls("Users.List") <= 1
    /\ NumCalls("Groups.List") <= 1
    /\ \A i, j \in 1..Len(log) :
          /\ (log[i].op = "Customers.Update"
                /\ log[j].op \in UserPhaseOps \cup GroupPhaseOps) => i < j
          /\ (log[i].op \in UserPhaseOps /\ log[j].op \in GroupPhaseOps) => i < j
          /\ (i < j /\ log[i].op \in UserOps /\ log[j].op \in UserOps) =>
                PosUser(log[i].key) <= PosUser(log[j].key)
          /\ (i < j /\ log[i].op \in GroupOps /\ log[j].op \in GroupOps) =>
                PosGroup(log[i].key) <= PosGroup(log[j].key)
    /\ \A k \in 1..Len(ruUsers) :
          Cardinality(CallsOf("Users.Update", ruUsers[k].Id)) <= 1
    /\ \A k \in 1..Len(guGroups) :
          Cardinality(CallsOf("Groups.Update", guGroups[k].Id)) <= 1
    /\ IsPrefix(SaidIds("user"), Ids(ruUsers))
    /\ IsPrefix(SaidIds("group"), Ids(guGroups))
    /\ pc = "complete" =>
          /\ SaidIds("user") = Ids(ruUsers)
          /\ SaidIds("group") = Ids(guGroups)

C15_Witness ==
    /\ pc = "complete"
    /\ NumCalls("Customers.Update") = 1
    /\ Len(ruUsers) = 2
    /\ NumCalls("Users.Update") = 2
    /\ NumCalls("Users.Aliases.Insert") >= 1
    /\ NumCalls("Groups.Update") = 1

\* ------------------------------------------------------------------ C16
InsertOps == {"Users.Aliases.Insert", "Groups.Aliases.Insert"}

FailedInserts == {k \in 1..Len(log) : log[k].op \in InsertOps /\ ~log[k].ok}

\* The addresses of the successful calls op made for principal id, in order.
OkPlanned(op, id) ==
    LET sel == SelectSeq(log, LAMBDA e : e.op = op /\ e.key = id /\ e.ok)
    IN  [k \in 1..Len(sel) |-> sel[k].arg]

\* C16: a failed alias insert never ends the run and is reported; the
\* principal's record is as the other calls made it (its aliases are those it
\* had followed by the successfully inserted ones, its primary address is
\* changed only by a successful update); and a completed run has issued the
\* whole alias plan of every listed principal, failures or not.
C16_InsertFailureNonFatal ==
    /\ \A k \in FailedInserts :
          /\ pc \in {"exit", "panic"} => k < Len(log)
          /\ \E n \in 1..Len(stdout) :
                /\ stdout[n].what = "could not add"
                /\ stdout[n].id = log[k].key
                /\ stdout[n].alias = log[k].arg
                /\ stdout[n].type =
                      IF log[k].op = "Users.Aliases.Insert"
                      THEN "user alias" ELSE "group alias"
    /\ \A i \in DOMAIN users :
          /\ users[i].Aliases =
                start.users[i].Aliases \o OkPlanned("Users.Aliases.Insert", i)
          /\ OkCalls("Users.Update", i) = {} =>
                users[i].PrimaryEmail = start.users[i].PrimaryEmail
    /\ \A i \in DOMAIN groups :
          /\ groups[i].Aliases =
                start.groups[i].Aliases \o OkPlanned("Groups.Aliases.Insert", i)
          /\ OkCalls("Groups.Update", i) = {} =>
                groups[i].Email = start.groups[i].Email
    /\ pc = "complete" =>
          /\ \A k \in 1..Len(ruUsers) :
                Len(Planned("Users.Aliases.Insert", ruUsers[k].Id)) =
                    Len(RefPlan(users[ruUsers[k].Id].PrimaryEmail,
                                ruUsers[k].Aliases, Len(ruUsers[k].Aliases)))
          /\ \A k \in 1..Len(guGroups) :
                Len(Planned("Groups.Aliases.Insert", guGroups[k].Id)) =
                    Len(RefPlan(groups[guGroups[k].Id].Email,
                                guGroups[k].Aliases, Len(guGroups[k].Aliases)))
          /\ Len(PrincipalLines) = Len(ruUsers) + Len(guGroups)

\* A failed insert followed by a successful insert for the same user and by
\* the update of another user, in a run that completed.
C16_Witness ==
    /\ pc = "complete"
    /\ \E k \in FailedInserts :
          /\ log[k].op = "Users.Aliases.Insert"
          /\ \E j \in (k + 1)..Len(log) :
                /\ log[j].op = "Users.Aliases.Insert"
                /\ log[j].key = log[k].key /\ log[j].ok
          /\ \E j \in (k + 1)..Len(log) :
                log[j].op = "Users.Update" /\ log[j].key # log[k].key

\* ------------------------------------------------------------------ C17
\* C17: the customer id is unchanged, no user or group is removed or gets
\* another id, the local part of every primary address is unchanged, and the
\* aliases of every principal are the aliases it had followed by appended
\* ones.
C17_NeverDeletes ==
    /\ customer.Id = start.customer.Id
    /\ Len(users) = Len(start.users)
    /\ Len(groups) = Len(start.groups)
    /\ \A i \in DOMAIN users :
          /\ users[i].Id = start.users[i].Id
          /\ LocalOf(users[i].PrimaryEmail) = LocalOf(start.users[i].PrimaryEmail)
          /\ Range(start.users[i].Aliases) \subseteq Range(users[i].Aliases)
          /\ IsPrefix(start.users[i].Aliases, users[i].Aliases)
    /\ \A i \in DOMAIN groups :
          /\ groups[i].Id = start.groups[i].Id
          /\ LocalOf(groups[i].Email) = LocalOf(start.groups[i].Email)
          /\ Range(start.groups[i].Aliases) \subseteq Range(groups[i].Aliases)
          /\ IsPrefix(start.groups[i].Aliases, groups[i].Aliases)

C17_Witness ==
    /\ pc = "complete"
    /\ customer.CustomerDomain # start.customer.CustomerDomain
    /\ \E i \in DOMAIN users :
          /\ users[i].PrimaryEmail # start.users[i].PrimaryEmail
          /\ Len(users[i].Aliases) > Len(start.users[i].Aliases)
          /\ Len(start.users[i].Aliases) > 0
    /\ \E i \in DOMAIN groups : groups[i].Email # start.groups[i].Email

\* ------------------------------------------------------------------ C18
\* C18 as stated: no alias insert call asks for an alias that is the
\* principal's own primary address as it is after the rename.
C18_NoInsertOfOwnPrimary ==
    \A k \in 1..Len(log) :
        /\ log[k].op = "Users.Aliases.Insert" =>
              log[k].arg # users[log[k].key].PrimaryEmail
        /\ log[k].op = "Groups.Aliases.Insert" =>
              log[k].arg # groups[log[k].key].Email

====
